---- MODULE Spec2Model ----
(***************************************************************************)
(* Pomodoro timer (src/main.py): the countdown thread (TimerThread), the   *)
(* session cycle controller (PomodoroApp) and the SQLite store             *)
(* (DatabaseManager).                                                      *)
(*                                                                         *)
(* Two threads share the TimerThread object: the worker thread executes    *)
(* TimerThread.run line by line (wpc), the main (GUI) thread executes the  *)
(* slots of PomodoroApp.  The attribute stores that TimerThread.start_timer*)
(* and stop_timer make on the shared object are separate steps of the main *)
(* thread (mpc), so that the worker can run between any two of them.       *)
(* Signals emitted by the worker are queued to the main thread (queue) and *)
(* delivered in FIFO order at an arbitrary later moment.                   *)
(***************************************************************************)
EXTENDS Integers, Sequences, FiniteSets, TLC

\* ------------------------------------------------------------------ bounds
\* longest session, in minutes, and largest long-break interval of a settings row
MaxMinutes == 2
MaxInterval == 4
\* signals queued and not yet delivered
MaxQueue == 2
\* stored session records: in runs the user only starts (MaxSessions), also
\* pauses (MaxBusySessions), also resets (MaxCadenceSessions) and also edits
\* the settings (MaxEditSessions)
MaxSessions == 7
MaxBusySessions == 2
MaxCadenceSessions == 3
MaxEditSessions == 2
\* accepted settings dialogs
MaxEdits == 1

\* ------------------------------------------------------- program constants
SecondsPerMinute == 60

VARIABLES
    \* TimerThread attributes (shared between the two threads)
    thr_duration, thr_remaining, thr_is_running, thr_is_paused,
    \* worker thread: line of TimerThread.run about to execute, and the value
    \* loaded by the read half of "self.remaining -= 1"
    wpc, wtmp,
    \* queued signals from the worker to the main thread
    queue,
    \* main thread: "loop" (event loop) or the line of TimerThread.start_timer
    \* / stop_timer about to execute
    mpc,
    \* PomodoroApp attributes
    current_session, session_type, is_running, cache, display,
    start_btn, pause_btn,
    \* DatabaseManager: rows as seen by the connection, and the committed rows
    settings_rows, sessions, disk,
    \* history variables (not program state), of the countdown last started:
    \*   h_cut    a reset began while it was running with time left
    \*   h_auto   it was started by timer_finished (auto-start)
    \*   h_paused it has been paused
    \*   h_emits, h_last  time_updated signals emitted, and the last value
    \*            emitted by the thread that is alive
    \*   h_decs   decrements of remaining
    \*   h_fins   timer_finished signals emitted
    \* and of the run: h_edits accepted settings dialogs, h_natwork work
    \* countdowns that ran to zero without a reset and were handled, h_err the
    \* last store call raised
    h_cut, h_auto, h_paused, h_emits, h_last, h_decs, h_fins,
    h_edits, h_natwork, h_err,
    \* the wall clock read by datetime.now(), in ticks; the value returned by
    \* the last query of the store; and (history) the last call of a store
    \* method with its arguments
    now, ret, h_call

thr == <<thr_duration, thr_remaining, thr_is_running, thr_is_paused>>
wrk == <<wpc, wtmp>>
app == <<current_session, session_type, is_running, cache, display>>
btn == <<start_btn, pause_btn>>
db == <<settings_rows, sessions, disk>>
h_run == <<h_cut, h_auto, h_paused, h_emits, h_last, h_decs, h_fins>>
hist == <<h_run, h_edits, h_natwork, h_err>>
api == <<now, ret, h_call>>
vars == <<thr, wrk, queue, mpc, app, btn, db, hist, api>>

SessionTypes == {"work", "short_break", "long_break"}
Minutes == 1..MaxMinutes
Intervals == 2..MaxInterval
Tasks == {""}

\* ---------------------------------------------------------- DatabaseManager
Columns ==
    {"work_duration", "short_break", "long_break", "long_break_interval",
     "auto_start_breaks", "auto_start_work", "sound_enabled", "username"}

DefaultRow ==
    [id |-> 1, work_duration |-> 25, short_break |-> 5, long_break |-> 15,
     long_break_interval |-> 4, auto_start_breaks |-> 0, auto_start_work |-> 0,
     sound_enabled |-> 1, username |-> 0]

\* rows the settings dialog can have saved in an earlier run of the program
SavedRows ==
    [id : {1}, work_duration : Minutes, short_break : Minutes,
     long_break : Minutes, long_break_interval : Intervals,
     auto_start_breaks : {0, 1}, auto_start_work : {0, 1},
     sound_enabled : {1}, username : {0}]

\* mutant: the default row is inserted on every start
create_tables_seeds_again(rows) ==
    Append(rows, [DefaultRow EXCEPT !.id = Len(rows) + 1])

\* create_tables: the default row is inserted only into an empty table
create_tables(rows) == IF Len(rows) = 0 THEN <<DefaultRow>> ELSE rows

\* get_settings: SELECT * FROM settings ORDER BY id DESC LIMIT 1
RECURSIVE MaxIdIndex(_, _)
MaxIdIndex(rows, n) ==
    IF n <= 1 THEN n
    ELSE LET m == MaxIdIndex(rows, n - 1)
         IN  IF rows[n].id > rows[m].id THEN n ELSE m

get_settings(rows) == rows[MaxIdIndex(rows, Len(rows))]

\* mutant: the row is stored as not completed
add_session_incomplete(tab, stype, duration, completed, task_name) ==
    Append(tab, [id |-> Len(tab) + 1, session_type |-> stype,
                 duration |-> duration, completed |-> 0,
                 task_name |-> task_name, date |-> now])

\* add_session: INSERT INTO sessions ... (id is AUTOINCREMENT, date is
\* datetime.now())
add_session(tab, stype, duration, completed, task_name) ==
    Append(tab, [id |-> Len(tab) + 1, session_type |-> stype,
                 duration |-> duration, completed |-> completed,
                 task_name |-> task_name, date |-> now])

\* conn.commit(): the connection's rows become the durable ones
commit(rows, tab) == [settings |-> rows, sessions |-> tab]

\* ------------------------------------------------------------- PomodoroApp
get_current_duration(stype, c) ==
    IF stype = "work" THEN c.work_duration
    ELSE IF stype = "short_break" THEN c.short_break_duration
    ELSE c.long_break_duration

\* the attributes load_settings copies out of the settings row
\* mutant: every column is read one place further
load_settings_shifted(row) ==
    [work_duration |-> row.short_break,
     short_break_duration |-> row.long_break,
     long_break_duration |-> row.long_break_interval,
     long_break_interval |-> row.auto_start_breaks,
     auto_start_breaks |-> (row.auto_start_work # 0),
     auto_start_work |-> (row.sound_enabled # 0),
     sound_enabled |-> (row.sound_enabled # 0)]

load_settings(row) ==
    [work_duration |-> row.work_duration,
     short_break_duration |-> row.short_break,
     long_break_duration |-> row.long_break,
     long_break_interval |-> row.long_break_interval,
     auto_start_breaks |-> (row.auto_start_breaks # 0),
     auto_start_work |-> (row.auto_start_work # 0),
     sound_enabled |-> (row.sound_enabled # 0)]

\* mutant: the modulus is taken of the counter before its increment
next_type_stale_count(stype, count, c) ==
    IF stype = "work"
    THEN IF count % c.long_break_interval = 0
         THEN "long_break" ELSE "short_break"
    ELSE "work"

\* mutant: every finished session is counted
next_count_every(stype, count) == count + 1

\* move_to_next_session, lines 872-898: the new (current_session, session_type)
next_count(stype, count) == IF stype = "work" THEN count + 1 ELSE count

next_type(stype, count, c) ==
    IF stype = "work"
    THEN IF (count + 1) % c.long_break_interval = 0
         THEN "long_break" ELSE "short_break"
    ELSE "work"

\* move_to_next_session, lines 917-918
auto_start(stype, c) ==
    \/ stype # "work" /\ c.auto_start_breaks
    \/ stype = "work" /\ c.auto_start_work

\* ------------------------------------------------------------------ signals
\* (history fields: natural, the countdown had not been reset when it emitted
\* the signal; old, a later countdown has been started since)
TimeUpdated(v) == [sig |-> "time_updated", val |-> v, natural |-> FALSE, old |-> FALSE]
Finished(nat) == [sig |-> "timer_finished", val |-> 0, natural |-> nat, old |-> FALSE]

\* the queued signals when a new countdown starts
Outdated(q) == [i \in DOMAIN q |-> [q[i] EXCEPT !.old = TRUE]]

\* QThread.isRunning(): true from start() until run() has returned and the
\* thread has finished
isRunning == wpc # "off"

\* rows of the runs with pauses: the longest work session, the
\* shortest breaks, a long break after every second work session, auto-start
\* of both kinds or of neither
BusyRows ==
    {[id |-> 1, work_duration |-> MaxMinutes, short_break |-> 1,
      long_break |-> 1, long_break_interval |-> 2, auto_start_breaks |-> a,
      auto_start_work |-> a, sound_enabled |-> 1, username |-> 0] : a \in {0, 1}}

\* rows of the runs with resets and settings edits: every session of one minute and
\* started automatically at the start; the dialog saves the longest work
\* session, another interval and no automatic start
ShortRows ==
    {[id |-> 1, work_duration |-> 1, short_break |-> 1,
      long_break |-> 1, long_break_interval |-> 2, auto_start_breaks |-> 1,
      auto_start_work |-> 1, sound_enabled |-> 1, username |-> 0]}

\* rows of the runs with direct calls: every session of one minute, started
\* by the user only
ManualRows ==
    {[id |-> 1, work_duration |-> 1, short_break |-> 1,
      long_break |-> 1, long_break_interval |-> 2, auto_start_breaks |-> 0,
      auto_start_work |-> 0, sound_enabled |-> 1, username |-> 0]}

EditRows ==
    {[id |-> 1, work_duration |-> MaxMinutes, short_break |-> 1,
      long_break |-> 1, long_break_interval |-> 3, auto_start_breaks |-> 0,
      auto_start_work |-> 0, sound_enabled |-> 1, username |-> 0]}

\* ---------------------------------------------------------------- initial
NoCall == [op |-> "none", args |-> <<>>]

\* PomodoroApp.__init__ on a database file whose settings table is one of
\* tables
InitTables(tables) ==
    /\ thr_duration = 0 /\ thr_remaining = 0
    /\ thr_is_running = FALSE /\ thr_is_paused = FALSE
    /\ wpc = "off" /\ wtmp = 0
    /\ queue = <<>>
    /\ mpc = "loop"
    /\ current_session = 0 /\ session_type = "work" /\ is_running = FALSE
    /\ \E rows \in tables :
          /\ settings_rows = create_tables(rows)
          /\ disk = [settings |-> create_tables(rows), sessions |-> <<>>]
          /\ cache = load_settings(get_settings(create_tables(rows)))
          /\ display = load_settings(get_settings(create_tables(rows))).work_duration
                          * SecondsPerMinute
    /\ sessions = <<>>
    /\ start_btn = TRUE /\ pause_btn = FALSE
    /\ h_cut = FALSE /\ h_auto = FALSE /\ h_paused = FALSE
    /\ h_emits = 0 /\ h_last = 0 /\ h_decs = 0 /\ h_fins = 0
    /\ h_edits = 0 /\ h_natwork = 0 /\ h_err = FALSE
    /\ now = 0 /\ ret = <<>> /\ h_call = NoCall

\* PomodoroApp.__init__ on a database whose settings row is one of stored
InitWith(stored) == InitTables({<<r>> : r \in stored})

Init == InitWith(ShortRows)

InitBusy == InitWith(BusyRows)

InitRun == InitWith(SavedRows)

InitCalls == InitWith(ShortRows \cup ManualRows)

\* ------------------------------------------------- DatabaseManager, updates
\* one pass of the loop of update_settings (lines 98-99): the UPDATE of an
\* unknown column raises, and the statements already executed stay in the
\* connection's open transaction
RECURSIVE apply_updates(_, _, _, _)
apply_updates(rows, id, kwargs, i) ==
    IF i > Len(kwargs) THEN [rows |-> rows, err |-> FALSE]
    ELSE IF kwargs[i].key \notin Columns THEN [rows |-> rows, err |-> TRUE]
    ELSE apply_updates(
            [n \in DOMAIN rows |->
                IF rows[n].id = id
                THEN [rows[n] EXCEPT ![kwargs[i].key] = kwargs[i].value]
                ELSE rows[n]],
            id, kwargs, i + 1)

\* mutant: the row is rewritten from the defaults and the given columns
update_settings_rewrites(rows, kwargs) ==
    IF Len(rows) > 0
    THEN apply_updates(<<[DefaultRow EXCEPT !.id = get_settings(rows).id]>>,
                       get_settings(rows).id, kwargs, 1)
    ELSE [rows |-> rows, err |-> FALSE]

update_settings(rows, kwargs) ==
    IF Len(rows) > 0
    THEN apply_updates(rows, get_settings(rows).id, kwargs, 1)
    ELSE [rows |-> rows, err |-> FALSE]

\* SettingsDialog.save_settings: every column, in the order of the call
save_settings(row) ==
    << [key |-> "username", value |-> row.username],
       [key |-> "work_duration", value |-> row.work_duration],
       [key |-> "short_break", value |-> row.short_break],
       [key |-> "long_break", value |-> row.long_break],
       [key |-> "long_break_interval", value |-> row.long_break_interval],
       [key |-> "auto_start_breaks", value |-> row.auto_start_breaks],
       [key |-> "auto_start_work", value |-> row.auto_start_work],
       [key |-> "sound_enabled", value |-> row.sound_enabled] >>

\* ------------------------------------------------- worker: TimerThread.run
W129 ==
    /\ wpc = "L129"
    /\ wpc' = IF thr_is_running THEN "L130" ELSE "ret"
    /\ UNCHANGED <<thr, wtmp, queue, mpc, app, btn, db, hist, api>>

W130 ==
    /\ wpc = "L130"
    /\ wpc' = IF ~thr_is_paused THEN "L131" ELSE "L137"
    /\ UNCHANGED <<thr, wtmp, queue, mpc, app, btn, db, hist, api>>

W131 ==
    /\ wpc = "L131"
    /\ Len(queue) < MaxQueue
    /\ queue' = Append(queue, TimeUpdated(thr_remaining))
    /\ h_emits' = h_emits + 1
    /\ h_last' = thr_remaining
    /\ wpc' = "L132"
    /\ UNCHANGED <<thr, wtmp, mpc, app, btn, db,
                   h_cut, h_auto, h_paused, h_decs, h_fins,
                   h_edits, h_natwork, h_err, api>>

\* mutant: "<" for "<="
W132_strict ==
    /\ wpc = "L132"
    /\ wpc' = IF thr_remaining < 0 THEN "L133" ELSE "L136"
    /\ UNCHANGED <<thr, wtmp, queue, mpc, app, btn, db, hist, api>>

W132 ==
    /\ wpc = "L132"
    /\ wpc' = IF thr_remaining <= 0 THEN "L133" ELSE "L136"
    /\ UNCHANGED <<thr, wtmp, queue, mpc, app, btn, db, hist, api>>

W133 ==
    /\ wpc = "L133"
    /\ thr_is_running' = FALSE
    /\ wpc' = "L134"
    /\ UNCHANGED <<thr_duration, thr_remaining, thr_is_paused, wtmp, queue,
                   mpc, app, btn, db, hist, api>>

W134 ==
    /\ wpc = "L134"
    /\ Len(queue) < MaxQueue
    /\ queue' = Append(queue, Finished(~h_cut))
    /\ h_fins' = h_fins + 1
    /\ wpc' = "L135"
    /\ UNCHANGED <<thr, wtmp, mpc, app, btn, db,
                   h_cut, h_auto, h_paused, h_emits, h_last, h_decs,
                   h_edits, h_natwork, h_err, api>>

W135 ==
    /\ wpc = "L135"
    /\ wpc' = "ret"
    /\ UNCHANGED <<thr, wtmp, queue, mpc, app, btn, db, hist, api>>

\* "self.remaining -= 1" is a load followed by a store
W136load ==
    /\ wpc = "L136"
    /\ wtmp' = thr_remaining
    /\ wpc' = "L136s"
    /\ UNCHANGED <<thr, queue, mpc, app, btn, db, hist, api>>

W136store ==
    /\ wpc = "L136s"
    /\ thr_remaining' = wtmp - 1
    /\ wtmp' = 0
    /\ h_decs' = h_decs + 1
    /\ wpc' = "L137"
    /\ UNCHANGED <<thr_duration, thr_is_running, thr_is_paused, queue,
                   mpc, app, btn, db,
                   h_cut, h_auto, h_paused, h_emits, h_last, h_fins,
                   h_edits, h_natwork, h_err, api>>

W137 ==
    /\ wpc = "L137"
    /\ wpc' = "L129"
    /\ UNCHANGED <<thr, wtmp, queue, mpc, app, btn, db, hist, api>>

\* run() has returned; the QThread finishes and isRunning() becomes false
WFinish ==
    /\ wpc = "ret"
    /\ wpc' = "off"
    /\ h_last' = 0
    /\ UNCHANGED <<thr, wtmp, queue, mpc, app, btn, db,
                   h_cut, h_auto, h_paused, h_emits, h_decs, h_fins,
                   h_edits, h_natwork, h_err, api>>

\* --------------------------------------------- main thread: PomodoroApp slots
\* start_timer, lines 796-798, with lines 140-141 of TimerThread.start_timer
\* (self.duration is read by nobody, so the two stores are one step)
StartBegin(stype, c, auto) ==
    /\ thr_duration' = get_current_duration(stype, c) * SecondsPerMinute
    /\ thr_remaining' = get_current_duration(stype, c) * SecondsPerMinute
    /\ mpc' = "m142"
    /\ h_cut' = FALSE /\ h_auto' = auto /\ h_paused' = FALSE
    /\ h_emits' = 0 /\ h_last' = 0 /\ h_decs' = 0 /\ h_fins' = 0
    /\ UNCHANGED <<thr_is_running, thr_is_paused>>

\* PomodoroApp.start_timer
start_timer ==
    IF ~is_running
    THEN /\ StartBegin(session_type, cache, FALSE)
         /\ UNCHANGED <<wrk, queue, app, btn, db, h_edits, h_natwork, h_err>>
    ELSE IF thr_is_paused
    THEN /\ thr_is_paused' = FALSE
         /\ start_btn' = FALSE /\ pause_btn' = TRUE
         /\ UNCHANGED <<thr_duration, thr_remaining, thr_is_running, wrk,
                        queue, mpc, app, db, hist>>
    ELSE UNCHANGED <<thr, wrk, queue, mpc, app, btn, db, hist>>

\* a click on the start button, which is enabled
ClickStart ==
    /\ mpc = "loop"
    /\ start_btn
    /\ start_timer
    /\ UNCHANGED api

\* the record of a call of a controller method: the argument tells a call
\* from the one before it
NextCall(op) ==
    [op |-> op, args |-> IF h_call = [op |-> op, args |-> <<0>>] THEN <<1>> ELSE <<0>>]

\* start_timer called whatever the buttons show
CallStart ==
    /\ mpc = "loop"
    /\ start_timer
    /\ h_call' = NextCall("start_timer")
    /\ UNCHANGED <<now, ret>>

\* TimerThread.start_timer, line 142
M142 ==
    /\ mpc = "m142"
    /\ thr_is_running' = TRUE
    /\ mpc' = "m143"
    /\ queue' = Outdated(queue)
    /\ UNCHANGED <<thr_duration, thr_remaining, thr_is_paused, wrk,
                   app, btn, db, hist, api>>

\* TimerThread.start_timer, line 143
M143 ==
    /\ mpc = "m143"
    /\ thr_is_paused' = FALSE
    /\ mpc' = "m144"
    /\ UNCHANGED <<thr_duration, thr_remaining, thr_is_running, wrk, queue,
                   app, btn, db, hist, api>>

\* TimerThread.start_timer, lines 144-145, then PomodoroApp.start_timer,
\* lines 799-802
M144 ==
    /\ mpc = "m144"
    /\ wpc' = IF ~isRunning THEN "L129" ELSE wpc
    /\ is_running' = TRUE
    /\ start_btn' = FALSE /\ pause_btn' = TRUE
    /\ mpc' = "loop"
    /\ UNCHANGED <<thr, wtmp, queue, current_session, session_type, cache,
                   display, db, hist, api>>

\* mutant: pausing drops the time that is left
pause_timer_drops ==
    IF is_running /\ ~thr_is_paused
    THEN /\ thr_is_paused' = TRUE
         /\ thr_remaining' = 0
         /\ start_btn' = TRUE /\ pause_btn' = FALSE
         /\ h_paused' = TRUE
         /\ UNCHANGED <<thr_duration, thr_is_running, wrk,
                        queue, mpc, app, db,
                        h_cut, h_auto, h_emits, h_last, h_decs, h_fins,
                        h_edits, h_natwork, h_err>>
    ELSE IF is_running /\ thr_is_paused
    THEN /\ thr_is_paused' = FALSE
         /\ start_btn' = FALSE /\ pause_btn' = TRUE
         /\ UNCHANGED <<thr_duration, thr_remaining, thr_is_running, wrk,
                        queue, mpc, app, db, hist>>
    ELSE UNCHANGED <<thr, wrk, queue, mpc, app, btn, db, hist>>

\* mutant: a paused countdown is not resumed
pause_timer_one_way ==
    IF is_running /\ ~thr_is_paused
    THEN /\ thr_is_paused' = TRUE
         /\ start_btn' = TRUE /\ pause_btn' = FALSE
         /\ h_paused' = TRUE
         /\ UNCHANGED <<thr_duration, thr_remaining, thr_is_running, wrk,
                        queue, mpc, app, db,
                        h_cut, h_auto, h_emits, h_last, h_decs, h_fins,
                        h_edits, h_natwork, h_err>>
    ELSE UNCHANGED <<thr, wrk, queue, mpc, app, btn, db, hist>>

\* PomodoroApp.pause_timer
pause_timer ==
    IF is_running /\ ~thr_is_paused
    THEN /\ thr_is_paused' = TRUE
         /\ start_btn' = TRUE /\ pause_btn' = FALSE
         /\ h_paused' = TRUE
         /\ UNCHANGED <<thr_duration, thr_remaining, thr_is_running, wrk,
                        queue, mpc, app, db,
                        h_cut, h_auto, h_emits, h_last, h_decs, h_fins,
                        h_edits, h_natwork, h_err>>
    ELSE IF is_running /\ thr_is_paused
    THEN /\ thr_is_paused' = FALSE
         /\ start_btn' = FALSE /\ pause_btn' = TRUE
         /\ UNCHANGED <<thr_duration, thr_remaining, thr_is_running, wrk,
                        queue, mpc, app, db, hist>>
    ELSE UNCHANGED <<thr, wrk, queue, mpc, app, btn, db, hist>>

\* a click on the pause button, which is enabled
ClickPause ==
    /\ mpc = "loop"
    /\ pause_btn
    /\ pause_timer
    /\ UNCHANGED api

\* pause_timer called whatever the buttons show
CallPause ==
    /\ mpc = "loop"
    /\ pause_timer
    /\ h_call' = NextCall("pause_timer")
    /\ UNCHANGED <<now, ret>>

\* PomodoroApp.reset_timer, line 824, entering TimerThread.stop_timer, line 154
ClickReset ==
    /\ mpc = "loop"
    /\ Len(queue) + 2 <= MaxQueue
    /\ thr_is_running' = FALSE
    /\ mpc' = "m155"
    /\ h_cut' = (h_cut \/ (thr_is_running /\ thr_remaining > 0))
    /\ h_emits' = 0 /\ h_decs' = 0
    /\ UNCHANGED <<thr_duration, thr_remaining, thr_is_paused, wrk, queue,
                   app, btn, db, h_auto, h_paused, h_last, h_fins,
                   h_edits, h_natwork, h_err, api>>

\* TimerThread.stop_timer, line 155
M155 ==
    /\ mpc = "m155"
    /\ thr_is_paused' = FALSE
    /\ mpc' = "m156"
    /\ UNCHANGED <<thr_duration, thr_remaining, thr_is_running, wrk, queue,
                   app, btn, db, hist, api>>

\* TimerThread.stop_timer, line 156
M156 ==
    /\ mpc = "m156"
    /\ thr_remaining' = 0
    /\ mpc' = "m157"
    /\ UNCHANGED <<thr_duration, thr_is_running, thr_is_paused, wrk, queue,
                   app, btn, db, hist, api>>

\* mutant: reset also goes back to the first work session
ResetDone_to_first ==
    /\ is_running' = FALSE
    /\ start_btn' = TRUE /\ pause_btn' = FALSE
    /\ session_type' = "work"
    /\ current_session' = 0
    /\ display' = get_current_duration("work", cache) * SecondsPerMinute
    /\ mpc' = "loop"
    /\ UNCHANGED <<thr, wrk, queue, cache, db, hist, api>>

\* PomodoroApp.reset_timer, lines 825-832
ResetDone ==
    /\ is_running' = FALSE
    /\ start_btn' = TRUE /\ pause_btn' = FALSE
    /\ display' = get_current_duration(session_type, cache) * SecondsPerMinute
    /\ mpc' = "loop"
    /\ UNCHANGED <<thr, wrk, queue, current_session, session_type, cache,
                   db, hist, api>>

\* TimerThread.stop_timer, line 157: with no thread alive stop_timer returns
M157 ==
    /\ mpc = "m157"
    /\ IF isRunning
       THEN /\ mpc' = "m159"
            /\ UNCHANGED <<thr, wrk, queue, app, btn, db, hist, api>>
       ELSE ResetDone

\* TimerThread.stop_timer, lines 158-159: quit() has no event loop to end,
\* wait() returns once the thread has finished
M159 ==
    /\ mpc = "m159"
    /\ ~isRunning
    /\ ResetDone

\* PomodoroApp.update_timer_display, the slot of time_updated
update_timer_display ==
    /\ mpc = "loop"
    /\ queue # <<>>
    /\ Head(queue).sig = "time_updated"
    /\ queue' = Tail(queue)
    /\ display' = Head(queue).val
    /\ UNCHANGED <<thr, wrk, mpc, current_session, session_type, is_running,
                   cache, btn, db, hist, api>>

\* PomodoroApp.timer_finished, the slot of timer_finished, with
\* move_to_next_session; when auto-start applies the slot goes on into
\* start_timer
timer_finished ==
    /\ mpc = "loop"
    /\ queue # <<>>
    /\ Head(queue).sig = "timer_finished"
    /\ queue' = Tail(queue)
    /\ \E task \in Tasks :
          sessions' = add_session(sessions, session_type,
                          get_current_duration(session_type, cache), 1, task)
    /\ disk' = commit(settings_rows, sessions')
    /\ current_session' = next_count(session_type, current_session)
    /\ session_type' = next_type(session_type, current_session, cache)
    /\ display' = get_current_duration(session_type', cache) * SecondsPerMinute
    /\ is_running' = FALSE
    /\ start_btn' = TRUE /\ pause_btn' = FALSE
    /\ h_natwork' = IF Head(queue).natural /\ session_type = "work"
                    THEN h_natwork + 1 ELSE h_natwork
    /\ IF auto_start(session_type', cache)
       THEN StartBegin(session_type', cache, TRUE)
       ELSE UNCHANGED <<thr, mpc, h_run>>
    /\ UNCHANGED <<wrk, cache, settings_rows, h_edits, h_err, api>>

\* PomodoroApp.open_settings with the dialog accepted: save_settings writes
\* the values of the dialog's widgets, then load_settings reads them back
SettingsDialog(values) ==
    /\ mpc = "loop"
    /\ h_edits < MaxEdits
    /\ \E row \in values :
          LET r == update_settings(settings_rows, save_settings(row))
          IN  /\ settings_rows' = r.rows
              /\ disk' = commit(r.rows, sessions)
              /\ cache' = load_settings(get_settings(r.rows))
              /\ display' = load_settings(get_settings(r.rows)).work_duration
                               * SecondsPerMinute
    /\ h_edits' = h_edits + 1
    /\ UNCHANGED <<thr, wrk, queue, mpc, current_session, session_type,
                   is_running, btn, sessions, h_run, h_natwork, h_err, api>>

\* the dialog accepted with the values of the runs with settings edits
open_settings == SettingsDialog(EditRows)

\* the dialog accepted with any values its spin boxes and check boxes can hold
\* (minimums of lines 316, 322, 328 and 334)
open_settings_any == SettingsDialog(SavedRows)

\* ------------------------------------------- DatabaseManager called directly
MaxKwargs == 2

KwKeys == {"work_duration", "short_break", "no_such_field"}

\* the keyword arguments of one call: distinct names, in call order
KwargsSpace ==
    {kw \in UNION {[1..n -> [key : KwKeys, value : Minutes]] : n \in 1..MaxKwargs} :
        \A i, j \in DOMAIN kw : i # j => kw[i].key # kw[j].key}

\* DatabaseManager.update_settings(**kwargs): an exception leaves the method
\* before line 100, so nothing is committed
store_update_settings ==
    /\ \E kw \in KwargsSpace :
          /\ settings_rows' = update_settings(settings_rows, kw).rows
          /\ h_err' = update_settings(settings_rows, kw).err
          /\ disk' = IF update_settings(settings_rows, kw).err
                     THEN disk
                     ELSE commit(update_settings(settings_rows, kw).rows, sessions)
          /\ h_call' = [op |-> "update_settings", args |-> kw]
    /\ ret' = <<>>
    /\ UNCHANGED <<thr, wrk, queue, mpc, app, btn, sessions,
                   h_run, h_edits, h_natwork, now>>

\* arguments of add_session other than the ones the timer passes
MaxStoreSessions == 1
MaxHistory == 2
StoreTasks == {"", "Write spec"}
Completed == {0, 1}

\* DatabaseManager.add_session, lines 70-75
store_add_session ==
    /\ \E st \in SessionTypes, d \in Minutes, c \in Completed, task \in StoreTasks :
          /\ sessions' = add_session(sessions, st, d, c, task)
          /\ h_call' = [op |-> "add_session", args |-> <<st, d, c, task>>]
    /\ disk' = commit(settings_rows, sessions')
    /\ h_err' = FALSE
    /\ ret' = <<>>
    /\ UNCHANGED <<thr, wrk, queue, mpc, app, btn, settings_rows,
                   h_run, h_edits, h_natwork, now>>

\* a database file that does not exist yet: connect creates it empty
NewFile == [settings |-> <<>>, sessions |-> <<>>]

\* DatabaseManager() constructed on a new database file or on the existing
\* one as committed: a new connection (what an earlier connection left
\* uncommitted is gone), then create_tables, lines 26-67
store_create_tables ==
    /\ \E f \in {"new", "existing"} :
          LET file == IF f = "new" THEN NewFile ELSE disk
          IN  /\ settings_rows' = create_tables(file.settings)
              /\ sessions' = file.sessions
              /\ h_call' = [op |-> "create_tables", args |-> <<f>>]
    /\ disk' = commit(settings_rows', sessions')
    /\ h_err' = FALSE
    /\ ret' = <<>>
    /\ UNCHANGED <<thr, wrk, queue, mpc, app, btn,
                   h_run, h_edits, h_natwork, now>>

\* DatabaseManager.get_settings, lines 87-90, called from outside
store_get_settings ==
    /\ ret' = <<get_settings(settings_rows)>>
    /\ h_call' = [op |-> "get_settings", args |-> <<>>]
    /\ UNCHANGED <<thr, wrk, queue, mpc, app, btn, db, hist, now>>

\* ------------------------------------------------ DatabaseManager, history
\* the clock: TicksPerDay ticks make a calendar day
TicksPerDay == 2
MaxNow == 4
MaxDays == 1
Days == 1..MaxDays

\* date(date): the calendar day of a timestamp
Day(t) == t \div TicksPerDay

\* (datetime.now() - timedelta(days=days)).isoformat(); timestamps of one
\* format compare as their instants do
date_limit(days) == now - days * TicksPerDay

\* mutant: the row written at the limit itself is left out
InWindow_strict(tab, days) == {i \in DOMAIN tab : tab[i].date > date_limit(days)}

\* WHERE date >= ?
InWindow(tab, days) == {i \in DOMAIN tab : tab[i].date >= date_limit(days)}

\* get_sessions, lines 77-85: ORDER BY date DESC leaves the order of rows of
\* equal date open, so every such order is a possible result
get_sessions(tab, days) ==
    {[k \in DOMAIN f |-> tab[f[k]]] :
        f \in {g \in [1..Cardinality(InWindow(tab, days)) -> InWindow(tab, days)] :
                 /\ \A a, b \in DOMAIN g : a # b => g[a] # g[b]
                 /\ \A a, b \in DOMAIN g : a < b => tab[g[a]].date >= tab[g[b]].date}}

\* SUM(duration) over the rows of tab at the indices idx
RECURSIVE SumDuration(_, _)
SumDuration(tab, idx) ==
    IF idx = {} THEN 0
    ELSE LET i == CHOOSE x \in idx : TRUE
         IN  tab[i].duration + SumDuration(tab, idx \ {i})

\* get_daily_stats, lines 102-115: GROUP BY date(date) over the rows of the
\* window, ORDER BY day
get_daily_stats(tab, days) ==
    LET idx == InWindow(tab, days)
        ds == {Day(tab[i].date) : i \in idx}
        nth(k) == CHOOSE d \in ds : Cardinality({e \in ds : e < d}) = k - 1
        of(d) == {i \in idx : Day(tab[i].date) = d}
    IN  [k \in 1..Cardinality(ds) |->
            [day |-> nth(k),
             total_sessions |-> Cardinality(of(nth(k))),
             completed_sessions |->
                 Cardinality({i \in of(nth(k)) : tab[i].completed = 1}),
             work_minutes |->
                 SumDuration(tab, {i \in of(nth(k)) :
                     tab[i].session_type = "work" /\ tab[i].completed = 1})]]

store_get_sessions ==
    /\ \E days \in Days :
          /\ ret' \in get_sessions(sessions, days)
          /\ h_call' = [op |-> "get_sessions", args |-> <<days>>]
    /\ UNCHANGED <<thr, wrk, queue, mpc, app, btn, db, hist, now>>

store_get_daily_stats ==
    /\ \E days \in Days :
          /\ ret' = get_daily_stats(sessions, days)
          /\ h_call' = [op |-> "get_daily_stats", args |-> <<days>>]
    /\ UNCHANGED <<thr, wrk, queue, mpc, app, btn, db, hist, now>>

\* time passes
store_tick ==
    /\ now < MaxNow
    /\ now' = now + 1
    /\ UNCHANGED <<thr, wrk, queue, mpc, app, btn, db, hist, ret, h_call>>

\* ------------------------------------------------------------ specifications
\* delivery of timer_finished while the sessions table is below its bound
Finish == Len(sessions) < MaxSessions /\ timer_finished

FinishBusy == Len(sessions) < MaxBusySessions /\ timer_finished

FinishEdit == Len(sessions) < MaxEditSessions /\ timer_finished

FinishCadence == Len(sessions) < MaxCadenceSessions /\ timer_finished

Worker ==
    \/ W129 \/ W130 \/ W131 \/ W132 \/ W133 \/ W134 \/ W135
    \/ W136load \/ W136store \/ W137 \/ WFinish

\* the user only starts sessions
NextRun ==
    \/ Worker
    \/ ClickStart \/ M142 \/ M143 \/ M144
    \/ update_timer_display
    \/ Finish

\* the user starts, pauses and resumes
NextPause ==
    \/ Worker
    \/ ClickStart \/ M142 \/ M143 \/ M144
    \/ ClickPause
    \/ update_timer_display
    \/ FinishBusy

Next ==
    \/ Worker
    \/ ClickStart \/ M142 \/ M143 \/ M144
    \/ ClickPause
    \/ ClickReset \/ M155 \/ M156 \/ M157 \/ M159
    \/ update_timer_display
    \/ FinishEdit
    \/ open_settings

\* sessions of one minute, started, paused, resumed and reset
NextCadence ==
    \/ Worker
    \/ ClickStart \/ M142 \/ M143 \/ M144
    \/ ClickPause
    \/ ClickReset \/ M155 \/ M156 \/ M157 \/ M159
    \/ update_timer_display
    \/ FinishCadence

Spec == Init /\ [][Next]_vars

SpecCadence == Init /\ [][NextCadence]_vars

\* the controller's methods called in any order, whatever the buttons show
NextCalls ==
    \/ Worker
    \/ CallStart \/ M142 \/ M143 \/ M144
    \/ CallPause
    \/ ClickReset \/ M155 \/ M156 \/ M157 \/ M159
    \/ update_timer_display
    \/ FinishBusy

SpecCalls == InitCalls /\ [][NextCalls]_vars

\* the same without reset
NextToggle ==
    \/ Worker
    \/ CallStart \/ M142 \/ M143 \/ M144
    \/ CallPause
    \/ update_timer_display
    \/ FinishBusy

SpecToggle == InitCalls /\ [][NextToggle]_vars

SpecPause == InitBusy /\ [][NextPause]_vars

SpecRun == InitRun /\ [][NextRun]_vars

\* the user only starts sessions, every one of them of one minute: the worker
\* thread is scheduled again and again, the main thread goes on inside
\* TimerThread.start_timer, and the event loop delivers what is queued
Fairness ==
    /\ WF_vars(Worker)
    /\ WF_vars(M142 \/ M143 \/ M144)
    /\ WF_vars(update_timer_display)
    /\ WF_vars(Finish)

SpecLive == Init /\ [][NextRun]_vars /\ Fairness

\* the user starts sessions of one minute by hand and edits the settings
InitManual == InitWith(ManualRows)

NextEdit ==
    \/ Worker
    \/ ClickStart \/ M142 \/ M143 \/ M144
    \/ update_timer_display
    \/ FinishEdit
    \/ open_settings

SpecEdit == InitManual /\ [][NextEdit]_vars

\* the program started on a new database file or on one that holds what the
\* dialog saved in an earlier run, and the settings edited in the dialog
InitSettings == InitTables({<<>>} \cup {<<r>> : r \in SavedRows})

NextSettings == open_settings_any

SpecSettings == InitSettings /\ [][NextSettings]_vars

\* the program started on a new database file or on one it has written
StoreTables == {<<>>} \cup {<<r>> : r \in BusyRows \cup ShortRows}

InitStore == InitTables(StoreTables)

StoreAdd == Len(sessions) < MaxStoreSessions /\ store_add_session

HistoryAdd == Len(sessions) < MaxHistory /\ store_add_session

\* the store's methods on the settings, called in any order
NextStore ==
    \/ store_create_tables
    \/ store_update_settings
    \/ store_get_settings
    \/ StoreAdd

SpecStore == InitStore /\ [][NextStore]_vars

\* the store's methods on the sessions, called in any order as time passes
NextHistory ==
    \/ HistoryAdd
    \/ store_get_sessions
    \/ store_get_daily_stats
    \/ store_tick

SpecHistory == Init /\ [][NextHistory]_vars

\* ------------------------------------------------------------------ claims
\* a step of the main thread that handles a queued timer_finished
Delivers == queue # <<>> /\ Head(queue).sig = "timer_finished" /\ queue' = Tail(queue)

\* the worker is inside the tick loop, not on its way out of it
InLoop == wpc \in {"L129", "L130", "L131", "L132", "L136", "L136s", "L137"}

\* C1: handling a finished Work session increments the counter first and goes
\* on to long_break when the incremented counter is a multiple of the
\* interval, else to short_break; handling a finished break goes on to work.
\* With an interval of 4, the types after the first four Work sessions of a
\* fresh run are short_break, short_break, short_break, long_break.
C1_Step ==
    Delivers =>
        /\ session_type = "work" =>
              /\ current_session' = current_session + 1
              /\ session_type' =
                    IF current_session' % cache.long_break_interval = 0
                    THEN "long_break" ELSE "short_break"
        /\ session_type # "work" =>
              /\ current_session' = current_session
              /\ session_type' = "work"

C1_After(k) ==
    IF Len(sessions) >= 2 * k THEN sessions[2 * k].session_type ELSE session_type

C1_Scenario ==
    cache.long_break_interval = 4 =>
        \A k \in 1..4 :
            Len(sessions) >= 2 * k - 1 =>
                C1_After(k) = IF k = 4 THEN "long_break" ELSE "short_break"

C1_TransitionRule == []C1_Scenario /\ [][C1_Step]_vars

C1_Witness ==
    /\ cache.long_break_interval = 4
    /\ Len(sessions) = 7
    /\ current_session = 4
    /\ session_type = "long_break"
    /\ \A k \in 1..3 : sessions[2 * k].session_type = "short_break"

\* C2: a reset issued before the countdown has reached zero never leads to a
\* session record: records are appended only for countdowns no reset cut short.
C2_ResetNeverRecords ==
    [][Len(sessions') > Len(sessions) => Head(queue).natural]_vars

\* C3: every natural completion is recorded exactly once: its timer_finished
\* stays queued until handled, handling it appends exactly one record, of the
\* session type held before the transition and with completed = 1, and no
\* other step changes the table.
C3_Step ==
    /\ Len(queue') < Len(queue) => queue' = Tail(queue)
    /\ (Delivers /\ Head(queue).natural) =>
          /\ Len(sessions') = Len(sessions) + 1
          /\ SubSeq(sessions', 1, Len(sessions)) = sessions
          /\ sessions'[Len(sessions')].session_type = session_type
          /\ sessions'[Len(sessions')].completed = 1
    /\ ~Delivers => sessions' = sessions

C3_OneRecordPerCompletion == [][C3_Step]_vars

C3_Witness ==
    /\ h_natwork = 1
    /\ Len(sessions) = 1
    /\ sessions[1].session_type = "work"
    /\ sessions[1].completed = 1
    /\ session_type = "short_break"

\* C4: with unchanged settings the n-th naturally completed Work session is
\* followed by long_break exactly when the interval divides n, whatever
\* starts, pauses and resets happened in between.
C4_Cadence ==
    [][(Delivers /\ Head(queue).natural /\ session_type = "work") =>
          session_type' = IF (h_natwork + 1) % cache.long_break_interval = 0
                          THEN "long_break" ELSE "short_break"]_vars

\* C5: the counter starts at 0, goes up by one when a naturally completed
\* Work session is handled, and is changed by nothing else.
C5_Step ==
    current_session' =
        IF Delivers /\ Head(queue).natural /\ session_type = "work"
        THEN current_session + 1
        ELSE current_session

C5_Counter == (current_session = 0) /\ [][C5_Step]_vars

\* C6 as stated: an uninterrupted countdown of d*60 seconds emits exactly
\* d*60 time_updated signals, strictly decreasing and ending at 0, and then
\* one timer_finished.
C6_Emits(n) ==
    /\ h_emits' = h_emits + 1 =>
          h_last' = IF h_emits = 0 THEN thr_duration ELSE h_last - 1
    /\ h_fins' = h_fins + 1 =>
          /\ h_emits = n
          /\ h_last = 0
          /\ h_fins = 0
    /\ (h_fins = 1 /\ h_fins' = 1) => h_emits' = h_emits

C6_Stated == [][C6_Emits(thr_duration)]_vars

\* C6 amended: an uninterrupted countdown of d*60 seconds emits exactly
\* d*60 + 1 time_updated signals, from d*60 down to 0 in steps of one, and
\* then one timer_finished.
C6_Amended == [][C6_Emits(thr_duration + 1)]_vars

C6_Witness ==
    /\ h_fins = 1
    /\ thr_duration = MaxMinutes * SecondsPerMinute
    /\ h_emits = thr_duration + 1
    /\ h_last = 0

\* C7: when timer_finished is emitted, remaining has been decremented exactly
\* d*60 times since the start, however pauses and resumes were interleaved.
C7_TicksConsumed == [][h_fins' = h_fins + 1 => h_decs = thr_duration]_vars

C7_Witness ==
    /\ h_fins = 1
    /\ h_paused
    /\ h_decs = thr_duration
    /\ thr_duration = MaxMinutes * SecondsPerMinute

\* C8: when the handler of timer_finished returns after an automatic start,
\* the thread is counting down the new session's duration inside its tick
\* loop; when automatic start does not apply the engine is left idle.
C8_Step ==
    /\ (mpc = "m144" /\ mpc' = "loop" /\ h_auto) =>
          /\ thr_is_running' /\ ~thr_is_paused'
          /\ thr_duration' = get_current_duration(session_type', cache')
                                * SecondsPerMinute
          /\ InLoop'
    /\ (Delivers /\ mpc' = "loop") =>
          /\ ~thr_is_running'
          /\ ~InLoop'

C8_AutoStart == [][C8_Step]_vars

\* C9: remaining is never negative.
C9_RemainingNonNegative == thr_remaining >= 0

\* C10: a call of update_settings that names an unknown column changes
\* nothing: get_settings returns the same row after the failed call, and a
\* commit that follows it does not change the stored settings.
C10_Step ==
    /\ h_err' => get_settings(settings_rows') = get_settings(settings_rows)
    /\ (h_err /\ settings_rows' = settings_rows) => disk'.settings = disk.settings

C10_RejectedBeforeMutation == [][C10_Step]_vars

\* C11: the settings table holds exactly one row in every state; a start on a
\* new file seeds the defaults (25, 5, 15, 4, no auto-start, sound on), a
\* start on an existing file changes no stored row or value, and
\* update_settings neither inserts nor deletes a row.
C11_Defaults(r) ==
    /\ r.work_duration = 25 /\ r.short_break = 5 /\ r.long_break = 15
    /\ r.long_break_interval = 4
    /\ r.auto_start_breaks = 0 /\ r.auto_start_work = 0
    /\ r.sound_enabled = 1

C11_Step ==
    /\ h_call'.op = "create_tables" =>
          IF h_call'.args = <<"new">>
          THEN C11_Defaults(settings_rows'[1]) /\ disk'.settings = settings_rows'
          ELSE disk' = disk /\ settings_rows' = disk.settings
    /\ h_call'.op = "update_settings" =>
          /\ Len(settings_rows') = Len(settings_rows)
          /\ \A n \in DOMAIN settings_rows : settings_rows'[n].id = settings_rows[n].id

C11_OneSettingsRow ==
    /\ [](Len(settings_rows) = 1 /\ Len(disk.settings) = 1)
    /\ [][C11_Step]_vars

C11_Witness ==
    /\ h_call.op = "create_tables"
    /\ h_call.args = <<"existing">>
    /\ Len(settings_rows) = 1
    /\ ~C11_Defaults(settings_rows[1])
    /\ settings_rows[1].work_duration = MaxMinutes

\* C12: update_settings of one known column followed by get_settings returns
\* the given value for that column and the earlier value for every other
\* column, and the row updated is the one row get_settings reads.
C12_Step ==
    (/\ h_call'.op = "update_settings"
     /\ Len(h_call'.args) = 1
     /\ h_call'.args[1].key \in Columns) =>
        /\ ~h_err'
        /\ Len(settings_rows') = 1
        /\ get_settings(settings_rows').id = get_settings(settings_rows).id
        /\ get_settings(settings_rows')[h_call'.args[1].key] = h_call'.args[1].value
        /\ \A c \in Columns \ {h_call'.args[1].key} :
              get_settings(settings_rows')[c] = get_settings(settings_rows)[c]

C12_RoundTrip == [][C12_Step]_vars

C12_Witness ==
    /\ h_call.op = "update_settings"
    /\ h_call.args = <<[key |-> "short_break", value |-> MaxMinutes]>>
    /\ get_settings(settings_rows).short_break = MaxMinutes
    /\ get_settings(settings_rows).work_duration = 25

\* the engine's states as the flags of TimerThread show them
EngineIdle == ~thr_is_running
EngineRunning == thr_is_running /\ ~thr_is_paused
EnginePaused == thr_is_running /\ thr_is_paused

\* the main thread enters TimerThread.start_timer
CallsStart == mpc = "loop" /\ mpc' = "m142"

\* C13: TimerThread.start_timer called on an engine that is not counting
\* sets remaining to the given duration and leaves the engine running; called
\* while a countdown is running it is refused and remaining stays as it is.
C13_Step ==
    /\ (CallsStart /\ EngineIdle) => thr_remaining' = thr_duration'
    /\ (CallsStart /\ EngineRunning /\ InLoop) => thr_remaining' = thr_remaining
    /\ (mpc = "m144" /\ mpc' = "loop") => EngineRunning'

C13_StartOnlyWhenIdle == [][C13_Step]_vars

\* the engine at rest: no thread, nothing left, no flag set
Stopped ==
    /\ ~thr_is_running /\ ~thr_is_paused
    /\ thr_remaining = 0
    /\ wpc = "off"

\* the main thread is inside TimerThread.stop_timer
InStop == mpc \in {"m155", "m156", "m157", "m159"}

\* C14: when TimerThread.stop_timer returns, from whatever state and position
\* of the tick loop it was called, the engine is idle, its thread has ended,
\* remaining is 0 and the paused flag is clear; stop_timer on an engine
\* already at rest changes nothing.
C14_Step ==
    /\ (InStop /\ mpc' = "loop") => Stopped'
    /\ (Stopped /\ (InStop \/ mpc' = "m155")) => Stopped'

C14_StopLeavesIdle == [][C14_Step]_vars

\* a step that is a call of the controller method op
Called(op) == h_call'.op = op /\ h_call' # h_call

\* C15: start_timer with no session active sets the engine to the current
\* session's minutes times 60 and starts it; with the engine paused it
\* resumes and leaves remaining as it is; with the engine running it changes
\* neither remaining nor the session type nor the engine's state.
C15_Step ==
    /\ (Called("start_timer") /\ ~is_running) =>
          /\ thr_duration' = get_current_duration(session_type, cache) * SecondsPerMinute
          /\ thr_remaining' = thr_duration'
          /\ mpc' = "m142"
    /\ (Called("start_timer") /\ EnginePaused) =>
          /\ EngineRunning'
          /\ thr_remaining' = thr_remaining
    /\ (Called("start_timer") /\ EngineRunning) =>
          /\ thr' = thr
          /\ session_type' = session_type
          /\ mpc' = mpc
    /\ (mpc = "m144" /\ mpc' = "loop") => (EngineRunning' /\ is_running')

C15_ControllerStart == [][C15_Step]_vars

\* the countdown has ended by itself and its timer_finished is not handled yet
EngineFinished ==
    /\ ~thr_is_running
    /\ \/ wpc = "L134"
       \/ \E i \in DOMAIN queue : queue[i].sig = "timer_finished"

\* C16: pause_timer with a session active pauses a running engine and resumes
\* a paused one, remaining untouched, so that two calls in a row give back
\* the engine's state; with the engine idle it changes nothing of the engine
\* or the controller.
C16_Step ==
    /\ (Called("pause_timer") /\ is_running /\ EngineRunning) =>
          /\ EnginePaused'
          /\ thr_remaining' = thr_remaining
    /\ (Called("pause_timer") /\ is_running /\ EnginePaused) =>
          /\ EngineRunning'
          /\ thr_remaining' = thr_remaining
    /\ (Called("pause_timer") /\ EngineIdle /\ ~EngineFinished) =>
          /\ thr' = thr
          /\ app' = app
          /\ btn' = btn

C17_Step ==
    /\ (InStop \/ InStop') =>
          /\ session_type' = session_type
          /\ current_session' = current_session
          /\ cache' = cache
    /\ (InStop /\ mpc' = "loop") =>
          /\ EngineIdle'
          /\ wpc' = "off"
          /\ ~is_running'

C17_ResetKeepsSession == [][C17_Step]_vars

C17_Witness ==
    /\ mpc = "loop"
    /\ h_cut /\ h_paused
    /\ session_type = "short_break" /\ current_session = 1
    /\ EngineIdle /\ wpc = "off" /\ ~is_running

\* a step that is a call of the store's query op
Queried(op) == h_call'.op = op /\ <<ret, h_call>>' # <<ret, h_call>>

\* the rows of a day, inside the window or not
OfDay(tab, d) == {i \in DOMAIN tab : Day(tab[i].date) = d}

\* the statistics as C18 states them: a row for every day with a session in
\* the window, counting all the sessions of that day
StatedDailyStats(tab, days) ==
    LET ds == {Day(tab[i].date) : i \in InWindow(tab, days)}
        nth(k) == CHOOSE d \in ds : Cardinality({e \in ds : e < d}) = k - 1
    IN  [k \in 1..Cardinality(ds) |->
            [day |-> nth(k),
             total_sessions |-> Cardinality(OfDay(tab, nth(k))),
             completed_sessions |->
                 Cardinality({i \in OfDay(tab, nth(k)) : tab[i].completed = 1}),
             work_minutes |->
                 SumDuration(tab, {i \in OfDay(tab, nth(k)) :
                     tab[i].session_type = "work" /\ tab[i].completed = 1})]]

\* C18: get_daily_stats(days) returns, ascending by day, one row for each
\* calendar day that has a session no older than now - days; the row counts
\* all the sessions of that day, those of them that are completed, and the
\* minutes of those that are completed work sessions; with no sessions the
\* result is empty.
C18_Step ==
    Queried("get_daily_stats") =>
        /\ ret' = StatedDailyStats(sessions, h_call'.args[1])
        /\ sessions = <<>> => ret' = <<>>

C18_DailyStats == [][C18_Step]_vars

\* C19: add_session appends exactly one record, with the given type,
\* duration, completed flag and task name and the current time as its
\* timestamp, and the table changes in no other way; get_sessions(days)
\* returns exactly the stored records no older than now - days, newest first.
\* After add_session on an empty history get_sessions returns that record.
C19_Step ==
    /\ sessions' # sessions =>
          /\ h_call'.op = "add_session"
          /\ Len(sessions') = Len(sessions) + 1
          /\ SubSeq(sessions', 1, Len(sessions)) = sessions
          /\ LET new == sessions'[Len(sessions')]
             IN  /\ <<new.session_type, new.duration, new.completed,
                      new.task_name>> = h_call'.args
                 /\ new.date = now
    /\ (h_call'.op = "add_session" /\ h_call' # h_call) =>
          Len(sessions') = Len(sessions) + 1
    /\ Queried("get_sessions") =>
          LET recent == {i \in DOMAIN sessions :
                  sessions[i].date >= now - h_call'.args[1] * TicksPerDay}
          IN  /\ Len(ret') = Cardinality(recent)
              /\ \A i \in recent : \E k \in DOMAIN ret' : ret'[k] = sessions[i]
              /\ \A a, b \in DOMAIN ret' : a < b => ret'[a].date >= ret'[b].date

C19_SessionsRoundTrip == [][C19_Step]_vars

C19_Witness ==
    /\ h_call.op = "get_sessions"
    /\ Len(sessions) = 1
    /\ ret = <<sessions[1]>>
    /\ ret[1].session_type = "work" /\ ret[1].completed = 1
    /\ ret[1].duration = MaxMinutes /\ ret[1].task_name = "Write spec"

\* C20: while the engine is paused, from the return of pause_timer to
\* resume_timer, remaining keeps its value and no time_updated is emitted,
\* wherever in its iteration the tick loop was when the pause came.
C20_Step ==
    (EnginePaused /\ EnginePaused') =>
        /\ thr_remaining' = thr_remaining
        /\ h_emits' = h_emits

C20_PausedIsFrozen == [][C20_Step]_vars

\* the queued signals of the countdown last started are in the order of a
\* countdown: values do not go up, and nothing follows timer_finished
QueueOrdered ==
    \A a, b \in DOMAIN queue :
        (a < b /\ ~queue[a].old /\ ~queue[b].old) =>
            /\ queue[a].sig # "timer_finished"
            /\ queue[b].sig = "time_updated" => queue[a].val >= queue[b].val

\* C21: a countdown emits timer_finished at most once, right after its
\* time_updated(0), and emits no time_updated after it; the values of
\* time_updated do not go up; the main thread receives the signals of a
\* countdown in that order.
C21_Step ==
    /\ h_fins' = h_fins + 1 =>
          /\ h_fins = 0
          /\ h_last = 0
    /\ h_emits' = h_emits + 1 =>
          /\ h_fins = 0
          /\ h_emits > 0 => h_last' <= h_last
    /\ QueueOrdered'

C21_EventOrder == [][C21_Step]_vars

\* C22: the duration of the record written when a countdown has run to its
\* end is the planned one: in seconds it is the duration the engine was
\* started with for that countdown, also when the settings were edited and
\* loaded again while the session was running or paused.
C22_Step ==
    (Delivers /\ Head(queue).natural /\ Len(sessions') = Len(sessions) + 1) =>
        sessions'[Len(sessions')].duration * SecondsPerMinute = thr_duration

C22_PlannedDuration == [][C22_Step]_vars

\* the controller takes a session for running, the main thread is in its
\* event loop, and there is neither a thread to count it down nor a
\* timer_finished on its way
Stuck ==
    /\ is_running /\ mpc = "loop"
    /\ wpc = "off"
    /\ \A i \in DOMAIN queue : queue[i].sig # "timer_finished"

\* C23: with the worker thread and the event loop scheduled fairly, every
\* countdown that was started, by the user or by timer_finished, and is
\* neither reset nor paused, ends with timer_finished handled; the controller
\* never takes a session for running while no thread is alive to end it.
C23_Liveness ==
    /\ [](~Stuck)
    /\ (is_running /\ Len(sessions) < MaxSessions) ~> ~is_running

\* the main thread takes a signal of a countdown older than the one last
\* started
DeliversOld ==
    /\ mpc = "loop" /\ queue # <<>>
    /\ Head(queue).old
    /\ Len(queue') = Len(queue) - 1

\* C24: between two handlers, whenever the controller's is_running is false
\* the engine is not counting, neither running nor paused; and a signal of a
\* countdown that is no longer the current one changes nothing of the current
\* one: not the running flag, not the session type, not the records, not the
\* time displayed.
C24_Step ==
    /\ (mpc' = "loop" /\ ~is_running') => ~thr_is_running'
    /\ DeliversOld =>
          /\ is_running' = is_running
          /\ session_type' = session_type
          /\ sessions' = sessions
          /\ display' = display

C24_FlagMirrorsEngine == [][C24_Step]_vars

\* C25: whenever no countdown is in progress (after startup, after a reset,
\* after a transition without automatic start, after edited settings are
\* loaded) the time displayed is the duration of the current session type, so
\* it never exceeds the total of the progress bar.
C25_IdleDisplay ==
    (mpc = "loop" /\ ~is_running /\ ~thr_is_running) =>
        display = get_current_duration(session_type, cache) * SecondsPerMinute

\* C26: in a run that starts with no records, the records written are work,
\* break, work, break, ... in turn, the first of them work, and the number of
\* work records is current_session, in every reachable state.
C26_Alternation ==
    /\ \A i \in DOMAIN sessions :
          IF i % 2 = 1
          THEN sessions[i].session_type = "work"
          ELSE sessions[i].session_type \in {"short_break", "long_break"}
    /\ Cardinality({i \in DOMAIN sessions : sessions[i].session_type = "work"})
          = current_session

C26_Witness ==
    /\ Len(sessions) = MaxCadenceSessions
    /\ sessions[2].session_type = "short_break"
    /\ current_session = 2
    /\ session_type = "long_break"
    /\ h_natwork < current_session

\* C27: after startup, after the settings dialog and after the settings are
\* loaded again, the settings the controller uses have a work duration, a
\* short break and a long break of at least 1 minute and a long-break interval
\* of at least 2: the modulus of the transition rule is never 0 and no
\* session type has a countdown of 0 seconds.
C27_SettingsInRange ==
    /\ cache.work_duration >= 1
    /\ cache.short_break_duration >= 1
    /\ cache.long_break_duration >= 1
    /\ cache.long_break_interval >= 2
    /\ \A t \in SessionTypes :
          get_current_duration(t, cache) * SecondsPerMinute > 0

C27_Witness ==
    /\ h_edits = 1
    /\ settings_rows = disk.settings
    /\ cache = load_settings(get_settings(settings_rows))
    /\ cache.work_duration = 1 /\ cache.short_break_duration = 1
    /\ cache.long_break_duration = 1 /\ cache.long_break_interval = 2

====
